---- MODULE Spec2Model ----
(***************************************************************************)
(* Model of RecentsWriter (frontend-utils/src/recents/write.rs): the       *)
(* in-memory list of recent entries (`values`, a Vec<Recent>) and the TOML *)
(* array of tables that mirrors it (`array`, an ArrayOfTables), under the  *)
(* two public operations push(recent, limit) and clear().                  *)
(*                                                                         *)
(* Rust indices are 0-based; sequences here are 1-based, so the Rust index *)
(* i is the TLA+ index i + 1 and Option<usize> None is the value 0.        *)
(***************************************************************************)
EXTENDS Integers, Sequences, FiniteSets, TLC

\* Number of distinct urls the callers push.
NumUrls == 4
\* Largest limit a caller passes to push; limits range over 0..MaxLimit.
MaxLimit == 3

\* url::Url: a parsed url is held as its serialization, and two urls are
\* equal when their serializations are.
Url(i) == [serialization |-> "file:///" \o ToString(i) \o ".swf"]
Urls == {Url(i) : i \in 1..NumUrls}

\* Recent { url }
Recent(u) == [url |-> u]
Recents == {Recent(u) : u \in Urls}

\* Url::as_str: the serialization of the url.
as_str(u) == u.serialization

\* let mut table = Table::new(); table["url"] = value(recent.url.as_str());
NewTable(recent) == [url |-> as_str(recent.url)]

\* The (values, toml_document["recent"]) pair the closure of
\* with_underlying_table works on, plus whether a panic has unwound it.
Holder(values, array, panicked) ==
    [values |-> values, array |-> array, panicked |-> panicked]

\* s without its element at the 1-based index i.
RemoveAt(s, i) == SubSeq(s, 1, i - 1) \o SubSeq(s, i + 1, Len(s))

\* ArrayOfTables::remove(index): panics when index is out of bounds.
array_remove(st, index) ==
    IF st.panicked THEN st
    ELSE IF index < 1 \/ index > Len(st.array)
         THEN [st EXCEPT !.panicked = TRUE]
         ELSE [st EXCEPT !.array = RemoveAt(st.array, index)]

\* Vec::remove(index): panics when index is out of bounds.
values_remove(st, index) ==
    IF st.panicked THEN st
    ELSE IF index < 1 \/ index > Len(st.values)
         THEN [st EXCEPT !.panicked = TRUE]
         ELSE [st EXCEPT !.values = RemoveAt(st.values, index)]

\* ArrayOfTables::push(table)
array_push(st, table) ==
    IF st.panicked THEN st ELSE [st EXCEPT !.array = Append(st.array, table)]

\* Vec::push(recent)
values_push(st, recent) ==
    IF st.panicked THEN st ELSE [st EXCEPT !.values = Append(st.values, recent)]

\* position never finding the entry: every push is taken for a new entry.
position_none(values, recent) == 0

\* values.iter().position(|x| x.url == recent.url): the first index whose
\* entry has the url of recent, 0 for None.
position(values, recent) ==
    IF \E i \in 1..Len(values) : values[i].url = recent.url
    THEN CHOOSE i \in 1..Len(values) :
            /\ values[i].url = recent.url
            /\ \A j \in 1..(i - 1) : values[j].url /= recent.url
    ELSE 0

\* The existing-entry branch leaving the document as it is: only the list
\* entry is moved.
ExistingEntry_stale_array(st, recent, index) ==
    LET removed == IF index >= 1 /\ index <= Len(st.values)
                   THEN st.values[index] ELSE recent
    IN  values_push(values_remove(st, index), removed)

\* The existing-entry branch doing nothing: the entry stays where it is.
ExistingEntry_no_move(st, recent, index) == st

\* The existing-entry branch removing the oldest element instead of the
\* one found.
ExistingEntry_front(st, recent, index) ==
    LET a1 == array_remove(st, 1)
        a2 == array_push(a1, NewTable(a1.values[1]))
        removed == a2.values[1]
        a3 == values_remove(a2, 1)
    IN  values_push(a3, removed)

\* The existing-entry branch of push: array.remove(index); array.push(table);
\* let recent = values.remove(index); values.push(recent).  The entry pushed
\* back is the one removed from values, not the argument.
ExistingEntry(st, recent, index) ==
    LET a1 == array_remove(st, index)
        a2 == array_push(a1, NewTable(recent))
        removed == IF index >= 1 /\ index <= Len(a2.values)
                   THEN a2.values[index] ELSE recent
        a3 == values_remove(a2, index)
    IN  values_push(a3, removed)

\* elements_to_remove without the room for the new element.
elements_to_remove_no_room(len, limit) == len - limit

\* let elements_to_remove = (values.len() - limit) + 1;
elements_to_remove(len, limit) == (len - limit) + 1

\* The eviction loop removing the newest element instead of the oldest.
RECURSIVE EvictLoop_back(_, _)
EvictLoop_back(st, n) ==
    IF n <= 0 THEN st
    ELSE EvictLoop_back(values_remove(array_remove(st, Len(st.array)),
                                      Len(st.values)), n - 1)

\* for _ in 0..n { array.remove(0); values.remove(0); }
RECURSIVE EvictLoop(_, _)
EvictLoop(st, n) ==
    IF n <= 0 THEN st
    ELSE EvictLoop(values_remove(array_remove(st, 1), 1), n - 1)

\* The new-entry branch evicting one element too early: at limit - 1
\* elements it already makes room.
NewEntry_early(st, recent, limit) ==
    LET evicted == IF Len(st.values) + 1 >= limit
                   THEN EvictLoop(st, (Len(st.values) + 1 - limit) + 1)
                   ELSE st
    IN  values_push(array_push(evicted, NewTable(recent)), recent)

\* The new-entry branch of push: evict when at or over the limit, then
\* push a new table and the entry.
NewEntry(st, recent, limit) ==
    LET evicted == IF Len(st.values) >= limit
                   THEN EvictLoop(st, elements_to_remove(Len(st.values), limit))
                   ELSE st
    IN  values_push(array_push(evicted, NewTable(recent)), recent)

\* push trimming the list down to the limit after a move-to-top as well.
push_trim(st, recent, limit) ==
    IF limit = 0 THEN st
    ELSE LET existing == position(st.values, recent)
         IN  IF existing /= 0
             THEN LET moved == ExistingEntry(st, recent, existing)
                  IN  IF Len(moved.values) > limit
                      THEN EvictLoop(moved, Len(moved.values) - limit)
                      ELSE moved
             ELSE NewEntry(st, recent, limit)

\* push without the early return on limit == 0.
push_no_guard(st, recent, limit) ==
    LET existing == position(st.values, recent)
    IN  IF existing /= 0
        THEN ExistingEntry(st, recent, existing)
        ELSE NewEntry(st, recent, limit)

\* RecentsWriter::push(recent, limit)
push(st, recent, limit) ==
    IF limit = 0 THEN st
    ELSE LET existing == position(st.values, recent)
         IN  IF existing /= 0
             THEN ExistingEntry(st, recent, existing)
             ELSE NewEntry(st, recent, limit)

\* clear emptying the document only.
clear_array_only(st) ==
    IF st.panicked THEN st ELSE [st EXCEPT !.array = <<>>]

\* RecentsWriter::clear(): array.clear(); values.clear().
clear(st) ==
    IF st.panicked THEN st ELSE [st EXCEPT !.array = <<>>, !.values = <<>>]

(***************************************************************************)
(* State.  values, array and panicked are the program's; call, prev_call   *)
(* and old record the last two completed calls and the contents the last   *)
(* call started from, and max_limit the largest limit any push was given,  *)
(* so that the effect of a call can be stated.                             *)
(*                                                                         *)
(* The remaining variables are the frame of a call that is run statement   *)
(* by statement: pc is the statement about to run, arg the call and its    *)
(* arguments, start the contents the call started from, index the result   *)
(* of position(), remaining the iterations the eviction loop has left,     *)
(* pairs the removal pairs it has done, moved the entry taken out of       *)
(* values, log the mutations made so far and underflow whether a usize     *)
(* subtraction went below zero.                                            *)
(*                                                                         *)
(* PlayerController (desktop/src/player.rs): player is the Option of the   *)
(* active player, lock the state of its Mutex<Player> as left by the       *)
(* other holders of the Arc, playing is Player::is_playing; lifecycle is   *)
(* the last of new, create and destroy, got and handled record the last    *)
(* get and handle_event, and fatal whether an expect has aborted.          *)
(***************************************************************************)
VARIABLES values, array, panicked, call, prev_call, old, max_limit,
          pc, arg, start, index, remaining, pairs, moved, log, underflow,
          player, lock, playing, lifecycle, got, handled, fatal

history == <<call, prev_call, old, max_limit>>
frame == <<pc, arg, start, index, remaining, pairs, moved, log, underflow>>
controller == <<player, lock, playing, lifecycle, got, handled, fatal>>
vars == <<values, array, panicked, history, frame, controller>>

NoRecent == Recent([serialization |-> ""])
NoCall == [op |-> "none", recent |-> NoRecent, limit |-> 0]
PushCall(recent, limit) == [op |-> "push", recent |-> recent, limit |-> limit]
ClearCall == [op |-> "clear", recent |-> NoRecent, limit |-> 0]

Current == Holder(values, array, panicked)

\* An empty recents document: no entries, no [[recent]] tables.
Init ==
    /\ values = <<>>
    /\ array = <<>>
    /\ panicked = FALSE
    /\ call = NoCall
    /\ prev_call = NoCall
    /\ old = Holder(<<>>, <<>>, FALSE)
    /\ max_limit = 0
    /\ pc = "idle"
    /\ arg = NoCall
    /\ start = Holder(<<>>, <<>>, FALSE)
    /\ index = 0
    /\ remaining = 0
    /\ pairs = 0
    /\ moved = NoRecent
    /\ log = <<>>
    /\ underflow = FALSE
    /\ player = "None"
    /\ lock = "free"
    /\ playing = FALSE
    /\ lifecycle = "new"
    /\ got = [result |-> "-", player |-> "None", lock |-> "free",
              lifecycle |-> "new"]
    /\ handled = [event |-> "-", outcome |-> "-", player |-> "None",
                  lock |-> "free", playing |-> FALSE]
    /\ fatal = FALSE

Finish(st, c) ==
    /\ values' = st.values
    /\ array' = st.array
    /\ panicked' = st.panicked
    /\ call' = c
    /\ prev_call' = call
    /\ old' = Current
    /\ max_limit' = IF c.op = "push" /\ c.limit > max_limit
                    THEN c.limit ELSE max_limit
    /\ UNCHANGED <<frame, controller>>

\* A caller invokes writer.push(recent, limit).
Push ==
    /\ ~panicked
    /\ \E recent \in Recents, limit \in 0..MaxLimit :
          Finish(push(Current, recent, limit), PushCall(recent, limit))

\* A caller invokes writer.clear().
Clear ==
    /\ ~panicked
    /\ Finish(clear(Current), ClearCall)

Next == Push \/ Clear

Spec == Init /\ [][Next]_vars

(***************************************************************************)
(* push and clear run one statement at a time.  The statements are named   *)
(* by what they do; pc "idle" is the caller between calls, "done" the      *)
(* point where the closure has returned and "panicked" an unwinding call.  *)
(***************************************************************************)
\* One mutation of one of the two sequences: which sequence, which
\* operation and, for remove, the 1-based index (0 otherwise).
Event(target, op, at) == [target |-> target, op |-> op, at |-> at]

\* The statements of the existing-entry branch in the order of the claim's
\* reading: both removals first, then both appends.
ExistingSteps_removals_first ==
    <<"array.remove(index)", "values.remove(index)",
      "array.push(table)", "values.push(recent)">>

\* The statements of the existing-entry branch, in source order.
ExistingSteps ==
    <<"array.remove(index)", "array.push(table)",
      "values.remove(index)", "values.push(recent)">>

\* The statement that follows label in the existing-entry branch, "done"
\* after the last one.
AfterExisting(label) ==
    LET k == CHOOSE i \in 1..Len(ExistingSteps) : ExistingSteps[i] = label
    IN  IF k = Len(ExistingSteps) THEN "done" ELSE ExistingSteps[k + 1]

\* The eviction guard taken one element too early.
at_or_over_limit_early(len, limit) == len + 1 >= limit

\* if values.len() >= limit
at_or_over_limit(len, limit) == len >= limit

\* The frame of a fresh call.
Enter(c, first) ==
    /\ pc' = first
    /\ arg' = c
    /\ start' = Current
    /\ index' = 0
    /\ remaining' = 0
    /\ pairs' = 0
    /\ moved' = NoRecent
    /\ log' = <<>>
    /\ UNCHANGED underflow

\* The contents after a statement, and the statement to run next unless
\* the statement panicked.
Apply(st, next) ==
    /\ values' = st.values
    /\ array' = st.array
    /\ panicked' = st.panicked
    /\ pc' = IF st.panicked THEN "panicked" ELSE next

\* writer.push(recent, limit) is called; limit == 0 returns at once.
StepCallPush ==
    /\ pc = "idle"
    /\ \E recent \in Recents, limit \in 0..MaxLimit :
          Enter(PushCall(recent, limit),
                IF limit = 0 THEN "done" ELSE "position")
    /\ UNCHANGED <<values, array, panicked, history, controller>>

\* writer.clear() is called.
StepCallClear ==
    /\ pc = "idle"
    /\ Enter(ClearCall, "array.clear()")
    /\ UNCHANGED <<values, array, panicked, history, controller>>

\* let existing = values.iter().position(..); if let Some(index) = existing
StepPosition ==
    /\ pc = "position"
    /\ index' = position(values, arg.recent)
    /\ pc' = IF index' /= 0 THEN ExistingSteps[1] ELSE "len >= limit"
    /\ UNCHANGED <<values, array, panicked, history, controller,
                   arg, start, remaining, pairs, moved, log, underflow>>

\* array.remove(index);
StepExistingArrayRemove ==
    /\ pc = "array.remove(index)"
    /\ Apply(array_remove(Current, index), AfterExisting(pc))
    /\ log' = Append(log, Event("array", "remove", index))
    /\ UNCHANGED <<history, controller, arg, start, index, remaining,
                   pairs, moved, underflow>>

\* let mut table = Table::new(); table["url"] = ..; array.push(table);
StepExistingArrayPush ==
    /\ pc = "array.push(table)"
    /\ Apply(array_push(Current, NewTable(arg.recent)), AfterExisting(pc))
    /\ log' = Append(log, Event("array", "push", 0))
    /\ UNCHANGED <<history, controller, arg, start, index, remaining,
                   pairs, moved, underflow>>

\* let recent = values.remove(index);
StepExistingValuesRemove ==
    /\ pc = "values.remove(index)"
    /\ moved' = IF index >= 1 /\ index <= Len(values)
                THEN values[index] ELSE NoRecent
    /\ Apply(values_remove(Current, index), AfterExisting(pc))
    /\ log' = Append(log, Event("values", "remove", index))
    /\ UNCHANGED <<history, controller, arg, start, index, remaining,
                   pairs, underflow>>

\* values.push(recent);
StepExistingValuesPush ==
    /\ pc = "values.push(recent)"
    /\ Apply(values_push(Current, moved), AfterExisting(pc))
    /\ log' = Append(log, Event("values", "push", 0))
    /\ UNCHANGED <<history, controller, arg, start, index, remaining,
                   pairs, moved, underflow>>

\* if values.len() >= limit
StepCheckLimit ==
    /\ pc = "len >= limit"
    /\ pc' = IF at_or_over_limit(Len(values), arg.limit)
             THEN "elements_to_remove" ELSE "new array.push(table)"
    /\ UNCHANGED <<values, array, panicked, history, controller,
                   arg, start, index, remaining, pairs, moved, log,
                   underflow>>

\* let elements_to_remove = (values.len() - limit) + 1;
\* A usize subtraction below zero panics in a build with overflow checks
\* and wraps in one without: (len - limit) + 1 then wraps to 0 when
\* len + 1 = limit and is otherwise more iterations than the sequences
\* have elements.
StepElementsToRemove ==
    /\ pc = "elements_to_remove"
    /\ underflow' = (underflow \/ Len(values) < arg.limit)
    /\ IF Len(values) >= arg.limit
       THEN /\ remaining' = elements_to_remove(Len(values), arg.limit)
            /\ pc' = "for"
            /\ UNCHANGED panicked
       ELSE \/ /\ panicked' = TRUE
               /\ pc' = "panicked"
               /\ UNCHANGED remaining
            \/ /\ remaining' = IF Len(values) + 1 = arg.limit
                               THEN 0 ELSE Len(values) + 1
               /\ pc' = "for"
               /\ UNCHANGED panicked
    /\ UNCHANGED <<values, array, history, controller,
                   arg, start, index, pairs, moved, log>>

\* for _ in 0..elements_to_remove
StepFor ==
    /\ pc = "for"
    /\ IF remaining > 0
       THEN /\ remaining' = remaining - 1
            /\ pc' = "array.remove(0)"
       ELSE /\ pc' = "new array.push(table)"
            /\ UNCHANGED remaining
    /\ UNCHANGED <<values, array, panicked, history, controller,
                   arg, start, index, pairs, moved, log, underflow>>

\* array.remove(0);
StepEvictArray ==
    /\ pc = "array.remove(0)"
    /\ Apply(array_remove(Current, 1), "values.remove(0)")
    /\ log' = Append(log, Event("array", "remove", 1))
    /\ UNCHANGED <<history, controller, arg, start, index, remaining,
                   pairs, moved, underflow>>

\* The loop body without values.remove(0): only the document is evicted.
StepEvictValues_missing ==
    /\ pc = "values.remove(0)"
    /\ pc' = "for"
    /\ pairs' = pairs + 1
    /\ UNCHANGED <<values, array, panicked, history, controller,
                   arg, start, index, remaining, moved, log, underflow>>

\* The loop body not consuming an iteration: the loop goes on until a
\* remove fails.
StepEvictValues_again ==
    /\ pc = "values.remove(0)"
    /\ Apply(values_remove(Current, 1), "array.remove(0)")
    /\ pairs' = pairs + 1
    /\ log' = Append(log, Event("values", "remove", 1))
    /\ UNCHANGED <<history, controller, arg, start, index, remaining,
                   moved, underflow>>

\* values.remove(0);
StepEvictValues ==
    /\ pc = "values.remove(0)"
    /\ Apply(values_remove(Current, 1), "for")
    /\ pairs' = pairs + 1
    /\ log' = Append(log, Event("values", "remove", 1))
    /\ UNCHANGED <<history, controller, arg, start, index, remaining,
                   moved, underflow>>

\* let mut table = Table::new(); table["url"] = ..; array.push(table);
StepNewArrayPush ==
    /\ pc = "new array.push(table)"
    /\ Apply(array_push(Current, NewTable(arg.recent)),
             "new values.push(recent)")
    /\ log' = Append(log, Event("array", "push", 0))
    /\ UNCHANGED <<history, controller, arg, start, index, remaining,
                   pairs, moved, underflow>>

\* values.push(recent);
StepNewValuesPush ==
    /\ pc = "new values.push(recent)"
    /\ Apply(values_push(Current, arg.recent), "done")
    /\ log' = Append(log, Event("values", "push", 0))
    /\ UNCHANGED <<history, controller, arg, start, index, remaining,
                   pairs, moved, underflow>>

\* array.clear();
StepClearArray ==
    /\ pc = "array.clear()"
    /\ Apply([Current EXCEPT !.array = <<>>], "values.clear()")
    /\ log' = Append(log, Event("array", "clear", 0))
    /\ UNCHANGED <<history, controller, arg, start, index, remaining,
                   pairs, moved, underflow>>

\* values.clear();
StepClearValues ==
    /\ pc = "values.clear()"
    /\ Apply([Current EXCEPT !.values = <<>>], "done")
    /\ log' = Append(log, Event("values", "clear", 0))
    /\ UNCHANGED <<history, controller, arg, start, index, remaining,
                   pairs, moved, underflow>>

\* The closure and the call return; the frame is dropped.
StepReturn ==
    /\ pc = "done"
    /\ pc' = "idle"
    /\ arg' = NoCall
    /\ start' = Holder(<<>>, <<>>, FALSE)
    /\ index' = 0
    /\ remaining' = 0
    /\ pairs' = 0
    /\ moved' = NoRecent
    /\ log' = <<>>
    /\ UNCHANGED <<values, array, panicked, history, controller, underflow>>

\* The statements of a call in progress.
StepRun ==
    \/ StepPosition
    \/ StepExistingArrayRemove
    \/ StepExistingArrayPush
    \/ StepExistingValuesRemove
    \/ StepExistingValuesPush
    \/ StepCheckLimit
    \/ StepElementsToRemove
    \/ StepFor
    \/ StepEvictArray
    \/ StepEvictValues
    \/ StepNewArrayPush
    \/ StepNewValuesPush
    \/ StepClearArray
    \/ StepClearValues
    \/ StepReturn

StepNext == StepCallPush \/ StepCallClear \/ StepRun

StepSpec == Init /\ [][StepNext]_vars

\* The code is synchronous and single-threaded: once called, push and
\* clear keep executing statements.
StepFairSpec == StepSpec /\ WF_vars(StepRun)

(***************************************************************************)
(* PlayerController: create, destroy, get and handle_event, next to the    *)
(* other holders of the player's Arc<Mutex<Player>>, which lock and        *)
(* unlock it on their own.                                                 *)
(***************************************************************************)
\* The PlayerEvent values the window passes on.
PlayerEvents == {"KeyDown", "MouseMove", "MouseDown"}

\* get returning None when the lock is not available.
get_none_when_busy(p, l) ==
    IF p = "None" THEN "None"
    ELSE IF l = "free" THEN "Some" ELSE "None"

\* PlayerController::get: None without a player; otherwise
\* Some(player.player.try_lock().expect(..)), where try_lock fails on a
\* lock that is held or poisoned and expect then panics.
get(p, l) ==
    IF p = "None" THEN "None"
    ELSE IF l = "free" THEN "Some" ELSE "panic"

\* PlayerController::handle_event: if let Some(mut player) = self.get()
\* { if player.is_playing() { player.handle_event(event); } }
handle_event(p, l, is_playing) ==
    LET guard == get(p, l)
    IN  IF guard = "Some"
        THEN IF is_playing THEN "forwarded" ELSE "dropped"
        ELSE IF guard = "None" THEN "noop" ELSE "panic"

\* Nothing but the controller changes.
ControllerOnly == UNCHANGED <<values, array, panicked, history, frame>>

\* PlayerController::create: self.player = Some(ActivePlayer::new(..)).
\* new() builds the player with autoplay, and takes and releases its lock.
CtlCreate ==
    /\ ~fatal
    /\ player' = "Some"
    /\ lock' = "free"
    /\ playing' = TRUE
    /\ lifecycle' = "create"
    /\ UNCHANGED <<got, handled, fatal>>
    /\ ControllerOnly

\* PlayerController::destroy: self.player = None.
CtlDestroy ==
    /\ ~fatal
    /\ player' = "None"
    /\ lock' = "free"
    /\ playing' = FALSE
    /\ lifecycle' = "destroy"
    /\ UNCHANGED <<got, handled, fatal>>
    /\ ControllerOnly

\* A caller calls get() and drops the guard it got.
CtlGet ==
    /\ ~fatal
    /\ got' = [result |-> get(player, lock), player |-> player,
               lock |-> lock, lifecycle |-> lifecycle]
    /\ fatal' = (got'.result = "panic")
    /\ UNCHANGED <<player, lock, playing, lifecycle, handled>>
    /\ ControllerOnly

\* The window passes an event to handle_event.
CtlHandleEvent ==
    /\ ~fatal
    /\ \E event \in PlayerEvents :
          handled' = [event |-> event,
                      outcome |-> handle_event(player, lock, playing),
                      player |-> player, lock |-> lock,
                      playing |-> playing]
    /\ fatal' = (handled'.outcome = "panic")
    /\ UNCHANGED <<player, lock, playing, lifecycle, got>>
    /\ ControllerOnly

\* Another holder of the Arc locks the player.
OtherLock ==
    /\ ~fatal
    /\ player = "Some"
    /\ lock = "free"
    /\ lock' = "held"
    /\ UNCHANGED <<player, playing, lifecycle, got, handled, fatal>>
    /\ ControllerOnly

\* The other holder drops its guard, or panics while holding it, which
\* poisons the mutex.
OtherUnlock ==
    /\ ~fatal
    /\ lock = "held"
    /\ lock' \in {"free", "poisoned"}
    /\ UNCHANGED <<player, playing, lifecycle, got, handled, fatal>>
    /\ ControllerOnly

\* The player is paused or resumed through a guard.
SetPlaying ==
    /\ ~fatal
    /\ player = "Some"
    /\ lock = "free"
    /\ playing' = ~playing
    /\ UNCHANGED <<player, lock, lifecycle, got, handled, fatal>>
    /\ ControllerOnly

ControllerNext ==
    \/ CtlCreate
    \/ CtlDestroy
    \/ CtlGet
    \/ CtlHandleEvent
    \/ OtherLock
    \/ OtherUnlock
    \/ SetPlaying

ControllerSpec == Init /\ [][ControllerNext]_vars

(***************************************************************************)
(* Vocabulary of the properties.                                           *)
(***************************************************************************)
\* The last completed call was an effective push (limit > 0).
Pushed == call.op = "push" /\ call.limit > 0

\* The pushed url was (was not) in the list the last call started from.
WasPresent == position(old.values, call.recent) /= 0
WasAbsent == position(old.values, call.recent) = 0

\* The indices of s whose element has the field url equal to u.
IndicesOf(s, u) == {i \in 1..Len(s) : s[i].url = u}

\* The document table that mirrors a list entry.
TableOf(entry) == [url |-> entry.url.serialization]

\* The document that mirrors a whole list.
DocumentOf(list) == [i \in 1..Len(list) |-> TableOf(list[i])]

\* s without the elements whose url field is u, order kept.
Without(s, u) == SelectSeq(s, LAMBDA x : x.url /= u)

(***************************************************************************)
(* C1  Mirroring: after every completed push or clear the document array   *)
(* and the list have the same length, and at every index the table's url   *)
(* field is the serialized url of the list entry at that index.            *)
(***************************************************************************)
C1_Mirroring ==
    /\ ~panicked
    /\ Len(array) = Len(values)
    /\ \A i \in 1..Len(values) :
          /\ DOMAIN array[i] = {"url"}
          /\ array[i].url = values[i].url.serialization

\* A move-to-top of an entry from the middle of a three-element list.
C1_Witness ==
    /\ Pushed
    /\ Len(values) = 3
    /\ position(old.values, call.recent) = 2

(***************************************************************************)
(* C2  Capacity bound, as claimed: after every push with limit > 0, in     *)
(* the new-entry branch and in the existing-entry branch alike, the list   *)
(* has at most limit entries.                                              *)
(***************************************************************************)
C2_CapacityBound == Pushed => Len(values) <= call.limit

(***************************************************************************)
(* C3  Uniqueness: no two entries of the list have an equal url, and no    *)
(* two tables of the document have an equal url field.                     *)
(***************************************************************************)
C3_Uniqueness ==
    /\ \A i, j \in 1..Len(values) : i /= j => values[i].url /= values[j].url
    /\ \A i, j \in 1..Len(array) : i /= j => array[i].url /= array[j].url

\* A push of a url that was already in a list of at least two entries.
C3_Witness ==
    /\ Pushed
    /\ WasPresent
    /\ Len(values) >= 2

(***************************************************************************)
(* C4  After a push with limit > 0 the pushed url occurs exactly once in   *)
(* the list, at the last index, and the last document table holds it.      *)
(***************************************************************************)
C4_PushedKeyLast ==
    Pushed =>
        /\ Len(values) >= 1
        /\ IndicesOf(values, call.recent.url) = {Len(values)}
        /\ Len(array) >= 1
        /\ array[Len(array)].url = as_str(call.recent.url)
        /\ IndicesOf(array, as_str(call.recent.url)) = {Len(array)}

\* The pushed url was the oldest of three entries and is now the newest.
C4_Witness ==
    /\ Pushed
    /\ Len(old.values) = 3
    /\ position(old.values, call.recent) = 1
    /\ values[3].url = call.recent.url

(***************************************************************************)
(* C5  push(entry, 0) leaves the list and the document as they were,       *)
(* whether or not the url is present: nothing moves, nothing is evicted.   *)
(***************************************************************************)
C5_ZeroLimitNoOp ==
    (call.op = "push" /\ call.limit = 0) =>
        /\ values = old.values
        /\ array = old.array
        /\ ~panicked

\* A zero-limit push of a url that is present, but not last, in the list.
C5_Witness ==
    /\ call.op = "push"
    /\ call.limit = 0
    /\ WasPresent
    /\ position(old.values, call.recent) < Len(old.values)

(***************************************************************************)
(* C6  Eviction on fresh insertion: with limit > 0, the url absent and     *)
(* n >= limit entries, the push removes the (n - limit) + 1 oldest         *)
(* entries from both sequences and appends the new one: the result is the  *)
(* last limit - 1 old entries in their order, then the new entry, and      *)
(* has exactly limit entries.                                              *)
(***************************************************************************)
C6_Eviction ==
    (Pushed /\ WasAbsent /\ Len(old.values) >= call.limit) =>
        LET n == Len(old.values)
            removed == (n - call.limit) + 1
        IN  /\ values = SubSeq(old.values, removed + 1, n) \o <<call.recent>>
            /\ array = SubSeq(old.array, removed + 1, n)
                          \o <<TableOf(call.recent)>>
            /\ Len(values) = call.limit
            /\ Len(array) = call.limit
            /\ Len(old.values) - (Len(values) - 1) = removed

\* Two entries evicted at once and one old entry kept (n = 3, limit = 2).
C6_Witness ==
    /\ Pushed
    /\ WasAbsent
    /\ Len(old.values) = 3
    /\ call.limit = 2
    /\ values[1] = old.values[3]

(***************************************************************************)
(* C7  Move-to-top: with limit > 0 and the url present at index i, both    *)
(* sequences become the old sequence without element i followed by the     *)
(* url; nothing else is evicted and the length is unchanged, whatever the  *)
(* limit.                                                                  *)
(***************************************************************************)
C7_MoveToTop ==
    (Pushed /\ WasPresent) =>
        LET i == position(old.values, call.recent)
        IN  /\ values = RemoveAt(old.values, i) \o <<call.recent>>
            /\ array = RemoveAt(old.array, i) \o <<TableOf(call.recent)>>
            /\ Len(values) = Len(old.values)
            /\ Len(array) = Len(old.array)

\* A move-to-top from the middle of a list longer than the limit passed.
C7_Witness ==
    /\ Pushed
    /\ position(old.values, call.recent) = 2
    /\ Len(old.values) = 3
    /\ call.limit = 1

(***************************************************************************)
(* C8  clear() leaves the list and the document empty, from any state      *)
(* and without failing.                                                    *)
(***************************************************************************)
C8_Clear ==
    call.op = "clear" =>
        /\ values = <<>>
        /\ array = <<>>
        /\ ~panicked

\* A clear of a populated list.
C8_Witness ==
    /\ call.op = "clear"
    /\ Len(old.values) >= 2
    /\ Len(old.array) >= 2

\* A clear of an empty list.
C8_WitnessEmpty ==
    /\ call.op = "clear"
    /\ old.values = <<>>
    /\ old.array = <<>>

(***************************************************************************)
(* C9  Pushing the same url twice in a row, the second time with a limit   *)
(* of at least the length the first push left: the url is still unique     *)
(* and last, and the other entries are in the order the first push left    *)
(* them in, in both sequences.                                             *)
(***************************************************************************)
SamePushTwice ==
    /\ prev_call.op = "push"
    /\ prev_call.limit > 0
    /\ call.op = "push"
    /\ call.recent.url = prev_call.recent.url
    /\ call.limit >= Len(old.values)

C9_RepeatPush ==
    SamePushTwice =>
        /\ IndicesOf(values, call.recent.url) = {Len(values)}
        /\ IndicesOf(array, as_str(call.recent.url)) = {Len(array)}
        /\ Without(values, call.recent.url)
              = Without(old.values, call.recent.url)
        /\ Without(array, as_str(call.recent.url))
              = Without(old.array, as_str(call.recent.url))

\* The second push came with exactly the length of a three-element list.
C9_Witness ==
    /\ SamePushTwice
    /\ Len(old.values) = 3
    /\ call.limit = 3

(***************************************************************************)
(* C10  Fresh insertion below capacity: with the url absent and            *)
(* n < limit entries nothing is evicted; every entry and table keeps its   *)
(* index and the new entry and table are appended at index n.              *)
(***************************************************************************)
C10_AppendBelowLimit ==
    (Pushed /\ WasAbsent /\ Len(old.values) < call.limit) =>
        /\ values = Append(old.values, call.recent)
        /\ array = Append(old.array, TableOf(call.recent))
        /\ Len(values) = Len(old.values) + 1
        /\ \A i \in 1..Len(old.values) :
              values[i] = old.values[i] /\ array[i] = old.array[i]

\* A third entry appended under limit 3, one below the limit.
C10_Witness ==
    /\ Pushed
    /\ WasAbsent
    /\ Len(old.values) = 2
    /\ call.limit = 3
    /\ Len(values) = 3

(***************************************************************************)
(* C16  Length growth: a push with limit > 0 leaves min(old length + 1,    *)
(* limit) entries when the url was absent and the old length when it was   *)
(* present; hence the length never exceeds the largest limit any push was  *)
(* given so far.                                                           *)
(***************************************************************************)
Min(a, b) == IF a <= b THEN a ELSE b

C16_LengthGrowth ==
    /\ (Pushed /\ WasAbsent) =>
          /\ Len(values) = Min(Len(old.values) + 1, call.limit)
          /\ Len(array) = Min(Len(old.array) + 1, call.limit)
    /\ (Pushed /\ WasPresent) =>
          /\ Len(values) = Len(old.values)
          /\ Len(array) = Len(old.array)
    /\ Len(values) <= max_limit
    /\ Len(array) <= max_limit

\* A fresh insertion into a full list under a limit that is below the
\* largest limit seen: the length drops to that limit.
C16_Witness ==
    /\ Pushed
    /\ WasAbsent
    /\ Len(old.values) = 3
    /\ call.limit = 2
    /\ max_limit = 3
    /\ Len(values) = 2

(***************************************************************************)
(* C17  Order preservation: across one push the entries evicted are a      *)
(* prefix (the oldest) of the old list, and the entries kept, other than   *)
(* the pushed url, are in their old relative order, in both sequences.     *)
(***************************************************************************)
\* s from its 1-based index m + 1 on.
DropFirst(s, m) == SubSeq(s, m + 1, Len(s))

C17_OrderPreserved ==
    call.op = "push" =>
        \E m \in 0..Len(old.values) :
            /\ Without(values, call.recent.url)
                  = Without(DropFirst(old.values, m), call.recent.url)
            /\ Without(array, as_str(call.recent.url))
                  = Without(DropFirst(old.array, m), as_str(call.recent.url))
            /\ \A i \in 1..m : IndicesOf(values, old.values[i].url) = {}
            /\ \A i \in 1..m : IndicesOf(array, old.array[i].url) = {}

\* Two of three entries evicted: the one kept is the newest.
C17_Witness ==
    /\ Pushed
    /\ WasAbsent
    /\ Len(old.values) = 3
    /\ call.limit = 2
    /\ Len(values) = 2
    /\ values[1] = old.values[3]
    /\ array[1] = old.array[3]

(***************************************************************************)
(* C18  Repeat push is the identity: after push(k, l1) with l1 > 0, a      *)
(* directly following push(k, l2) with any l2 > 0 leaves both sequences    *)
(* as the first push left them.                                            *)
(***************************************************************************)
RepeatedPush ==
    /\ prev_call.op = "push"
    /\ prev_call.limit > 0
    /\ call.op = "push"
    /\ call.limit > 0
    /\ call.recent.url = prev_call.recent.url

C18_RepeatIdentity ==
    RepeatedPush =>
        /\ values = old.values
        /\ array = old.array
        /\ ~panicked

\* The second push came with a limit below the length of the list.
C18_Witness ==
    /\ RepeatedPush
    /\ Len(old.values) = 3
    /\ call.limit = 1
    /\ Len(values) = 3

(***************************************************************************)
(* Vocabulary of the statement-level properties.                           *)
(***************************************************************************)
\* The number of events of log that apply op to target.
Count(target, op) ==
    Cardinality({i \in 1..Len(log) :
                    log[i].target = target /\ log[i].op = op})

\* The absolute difference of the two lengths.
LengthGap ==
    IF Len(array) >= Len(values)
    THEN Len(array) - Len(values) ELSE Len(values) - Len(array)

\* A call is part-way through its statements.
Running == pc \notin {"idle", "done"}

\* A push with limit > 0 has run all its statements.
PushDone == pc = "done" /\ arg.op = "push" /\ arg.limit > 0

(***************************************************************************)
(* C11  Totality: no call, whatever the limit and the contents, panics;    *)
(* every remove(index) of a call runs with its index inside the sequence   *)
(* it removes from, the eviction loop never removes from an empty          *)
(* sequence, and len - limit is evaluated only when len >= limit.          *)
(***************************************************************************)
C11_Totality ==
    /\ ~panicked
    /\ pc /= "panicked"
    /\ ~underflow
    /\ pc = "array.remove(index)" => (index >= 1 /\ index <= Len(array))
    /\ pc = "values.remove(index)" => (index >= 1 /\ index <= Len(values))
    /\ pc = "array.remove(0)" => Len(array) >= 1
    /\ pc = "values.remove(0)" => Len(values) >= 1
    /\ pc = "elements_to_remove" => Len(values) >= arg.limit

\* A push under limit 1 into a list of three has evicted all three.
C11_Witness ==
    /\ PushDone
    /\ arg.limit = 1
    /\ Len(start.values) = 3
    /\ index = 0
    /\ pairs = 3
    /\ Len(values) = 1

(***************************************************************************)
(* C13  Stepwise lockstep, as claimed: in every pair of mutations the      *)
(* document is mutated before the list, the two lengths never differ by    *)
(* more than one at any step of push or clear, and during eviction the     *)
(* oldest index is removed and the lengths are equal after each pair.      *)
(***************************************************************************)
DocumentFirst ==
    \A op \in {"remove", "push", "clear"} :
        /\ Count("array", op) >= Count("values", op)
        /\ Count("array", op) <= Count("values", op) + 1

EvictionInPairs ==
    (arg.op = "push" /\ index = 0) =>
        /\ \A i \in 1..Len(log) : log[i].op = "remove" => log[i].at = 1
        /\ pc = "for" =>
              /\ Len(array) = Len(values)
              /\ values = DropFirst(start.values, pairs)
              /\ array = DropFirst(start.array, pairs)

C13_LockstepAsClaimed ==
    /\ DocumentFirst
    /\ EvictionInPairs
    /\ LengthGap <= 1

(***************************************************************************)
(* C13 amended  In every pair of mutations the document is mutated before  *)
(* the list; during push the two lengths never differ by more than one,    *)
(* and during eviction the oldest index is removed and the lengths are     *)
(* equal after each pair; clear empties the whole document and then the    *)
(* whole list, so in between the lengths differ by the old length.         *)
(***************************************************************************)
C13_Lockstep ==
    /\ DocumentFirst
    /\ EvictionInPairs
    /\ arg.op /= "clear" => LengthGap <= 1
    /\ (arg.op = "clear" /\ pc = "values.clear()") =>
          /\ array = <<>>
          /\ values = start.values
          /\ LengthGap = Len(start.values)

\* Between the two removals of the second eviction pair.
C13_Witness ==
    /\ pc = "values.remove(0)"
    /\ pairs = 1
    /\ Len(array) + 1 = Len(values)
    /\ Len(start.values) = 3

(***************************************************************************)
(* C14  Step order of move-to-top, as claimed: document table i removed,   *)
(* then list entry i removed, then the new table appended, then the entry  *)
(* appended.                                                               *)
(***************************************************************************)
MovedToTop == PushDone /\ index /= 0

C14_StepOrderAsClaimed ==
    MovedToTop =>
        log = <<Event("array", "remove", index),
                Event("values", "remove", index),
                Event("array", "push", 0),
                Event("values", "push", 0)>>

(***************************************************************************)
(* C14 amended  When the url is found at position i, push removes the      *)
(* document table at i, appends the new table to the document, then        *)
(* removes the list entry at i and last appends that entry to the list.    *)
(***************************************************************************)
C14_StepOrder ==
    MovedToTop =>
        /\ log = <<Event("array", "remove", index),
                   Event("array", "push", 0),
                   Event("values", "remove", index),
                   Event("values", "push", 0)>>
        /\ index = position(start.values, arg.recent)
        /\ moved = start.values[index]

\* A move-to-top from the middle of a three-element list has completed.
C14_Witness ==
    /\ MovedToTop
    /\ index = 2
    /\ Len(start.values) = 3
    /\ values[3].url = arg.recent.url

(***************************************************************************)
(* C15  Termination: every call that has started reaches its end and       *)
(* returns; a push that evicts has then done exactly (len - limit) + 1     *)
(* removal pairs, a push that does not evict none, and its last mutation   *)
(* is the append to the list.                                              *)
(***************************************************************************)
Evicting == index = 0 /\ Len(start.values) >= arg.limit

PairsDone ==
    PushDone =>
        /\ Evicting => pairs = (Len(start.values) - arg.limit) + 1
        /\ ~Evicting => pairs = 0
        /\ remaining = 0
        /\ log /= <<>>
        /\ log[Len(log)] = Event("values", "push", 0)

C15_Termination ==
    /\ []PairsDone
    /\ (pc = "position") ~> (pc = "done")
    /\ (pc = "array.clear()") ~> (pc = "done")
    /\ (pc /= "idle") ~> (pc = "idle")

\* A push that had to make two removal pairs has completed.
C15_Witness ==
    /\ PushDone
    /\ Evicting
    /\ pairs = 2
    /\ Len(values) = arg.limit

(***************************************************************************)
(* C19  get returns None exactly when there is no active player: at first  *)
(* and after destroy, until the next create.  With a player it returns     *)
(* the locked player, or aborts when the lock cannot be taken; it never    *)
(* returns None then.  handle_event without a player does nothing, and     *)
(* with one forwards the event only if the player is playing.              *)
(***************************************************************************)
C19_GetAndHandleEvent ==
    /\ (player = "None") <=> (lifecycle \in {"new", "destroy"})
    /\ got.result /= "-" =>
          /\ (got.result = "None") <=> (got.player = "None")
          /\ (got.result = "None") <=> (got.lifecycle \in {"new", "destroy"})
          /\ got.player = "Some" =>
                got.result = IF got.lock = "free" THEN "Some" ELSE "panic"
    /\ handled.outcome /= "-" =>
          /\ handled.player = "None" => handled.outcome = "noop"
          /\ handled.outcome = "forwarded" =>
                (handled.player = "Some" /\ handled.playing)
          /\ (handled.player = "Some" /\ handled.lock = "free") =>
                handled.outcome =
                   IF handled.playing THEN "forwarded" ELSE "dropped"
          /\ (handled.player = "Some" /\ handled.lock /= "free") =>
                handled.outcome = "panic"
    /\ fatal <=> (got.result = "panic" \/ handled.outcome = "panic")

\* An event was forwarded to a playing player, and a later get found the
\* lock held and aborted.
C19_Witness ==
    /\ handled.outcome = "forwarded"
    /\ got.result = "panic"
    /\ got.player = "Some"
    /\ got.lock = "held"
    /\ fatal

====
